---- MODULE Spec2Model ----
(***************************************************************************)
(* Model of src/entrypoint.py: the P4TV entrypoint.  main() validates a    *)
(* JSON payload, runs the P4-to-Boogie translator and the Ultimate         *)
(* verifier one after the other inside a temporary directory, classifies   *)
(* the verifier's text with three ordered regular expressions, extracts a  *)
(* lasso-shaped counterexample and prints one JSON record.                 *)
(*                                                                         *)
(* Text.  A Python string is a sequence of pieces.  A piece [t, n] stands  *)
(* for the first n characters of t repeated for ever: [t |-> "Stem:",      *)
(* n |-> 5] is the word "Stem:", [t |-> "x", n |-> 4990] is 4990 filler    *)
(* characters, and a piece with n < Len(t) is a word cut by a slice.  The  *)
(* words are the units the program's patterns look for, so a pattern       *)
(* matches inside one whole piece.                                         *)
(***************************************************************************)
EXTENDS Integers, Sequences, FiniteSets, TLC

\* ------------------------------------------------------------------ bounds

\* The most lines a verifier output has.
MaxLines == 4

\* ------------------------------------------------------------------- text

Tok(s) == [t |-> s, n |-> Len(s)]

Whole(p) == p.n = Len(p.t)

NL == Tok("\n")

SP == Tok(" ")

\* len(s)
RECURSIVE CharLen(_)
CharLen(s) == IF s = <<>> THEN 0 ELSE Head(s).n + CharLen(Tail(s))

\* s[:k]
RECURSIVE Slice(_, _)
Slice(s, k) ==
    IF s = <<>> \/ k = 0 THEN <<>>
    ELSE IF Head(s).n <= k THEN <<Head(s)>> \o Slice(Tail(s), k - Head(s).n)
    ELSE <<[t |-> Head(s).t, n |-> k]>>

\* s.split("\n"): always at least one line, the empty string gives [""].
RECURSIVE Split(_)
Split(s) ==
    IF s = <<>> THEN << <<>> >>
    ELSE LET rest == Split(Tail(s)) IN
         IF Head(s) = NL THEN << <<>> >> \o rest
         ELSE << <<Head(s)>> \o Head(rest) >> \o Tail(rest)

\* "\n".join(lines)
RECURSIVE Join(_)
Join(lines) ==
    IF lines = <<>> THEN <<>>
    ELSE IF Len(lines) = 1 THEN Head(lines)
    ELSE Head(lines) \o <<NL>> \o Join(Tail(lines))

IsSpace(p) == p.t \in {" ", "\t", "\n", "\r"}

RECURSIVE LStrip(_)
LStrip(l) == IF l # <<>> /\ IsSpace(Head(l)) THEN LStrip(Tail(l)) ELSE l

RECURSIVE RStrip(_)
RStrip(l) ==
    IF l # <<>> /\ IsSpace(l[Len(l)]) THEN RStrip(SubSeq(l, 1, Len(l) - 1)) ELSE l

\* line.strip()
Strip(l) == RStrip(LStrip(l))

\* str.lower() on the words of the vocabulary that carry upper-case letters.
Lower(s) ==
    CASE s = "TypeErrorResult" -> "typeerrorresult"
      [] s = "AllSpecificationsHoldResult" -> "allspecificationsholdresult"
      [] s = "CounterExampleResult" -> "counterexampleresult"
      [] s = "LTLPropertyNotHoldResult" -> "ltlpropertynotholdresult"
      [] s = "Stem:" -> "stem:"
      [] s = "Loop:" -> "loop:"
      [] s = "RESULT:" -> "result:"
      [] s = "End of lasso representation" -> "end of lasso representation"
      [] s = "We found a lasso-shaped" -> "we found a lasso-shaped"
      [] s = "[L1]" -> "[l1]"
      [] s = "[L12]" -> "[l12]"
      [] OTHER -> s

\* Whether the literal alt occurs in the word s (both already in one case).
Occurs(alt, s) ==
    \/ alt = s
    \/ alt = "counterexample" /\ s = "counterexampleresult"

\* re.search(alt1|alt2|..., text, re.IGNORECASE) is not None
SearchIgnoreCase(alts, text) ==
    \E i \in 1..Len(text) :
        /\ Whole(text[i])
        /\ LET word == Lower(text[i].t) IN \E a \in alts : Occurs(a, word)

\* ---------------------------------------------------- verdict (lines 105-116)

ErrorPatterns ==
    {"typeerrorresult", "syntaxerrorresult", "could not prove",
     "exceptionorerrorresult", "unsupportedsyntaxresult"}

SuccessPatterns ==
    {"allspecificationsholdresult", "ltlpropertyholdsresult", "termination proven"}

FailurePatterns == {"counterexampleresult", "ltlpropertynotholdresult"}

\* Classify with the success test moved before the error test.
ClassifySuccessFirst(output, timedOut) ==
    IF SearchIgnoreCase(SuccessPatterns, output) THEN "true"
    ELSE IF SearchIgnoreCase(ErrorPatterns, output) THEN "error"
    ELSE IF SearchIgnoreCase(FailurePatterns, output) THEN "false"
    ELSE IF timedOut THEN "timeout"
    ELSE "unknown"

\* Classify with the failure pattern cut to its first alternative.
ClassifyOneFailurePattern(output, timedOut) ==
    IF SearchIgnoreCase(ErrorPatterns, output) THEN "error"
    ELSE IF SearchIgnoreCase(SuccessPatterns, output) THEN "true"
    ELSE IF SearchIgnoreCase({"counterexampleresult"}, output) THEN "false"
    ELSE IF timedOut THEN "timeout"
    ELSE "unknown"

\* Classify with the generic words "violation" and "counterexample" added to
\* the failure pattern.
ClassifyGenericFailure(output, timedOut) ==
    IF SearchIgnoreCase(ErrorPatterns, output) THEN "error"
    ELSE IF SearchIgnoreCase(SuccessPatterns, output) THEN "true"
    ELSE IF SearchIgnoreCase(FailurePatterns \cup {"violation", "counterexample"},
                             output) THEN "false"
    ELSE IF timedOut THEN "timeout"
    ELSE "unknown"

\* The if/elif chain of lines 107-116; timedOut is the value of timed_out.
Classify(output, timedOut) ==
    IF SearchIgnoreCase(ErrorPatterns, output) THEN "error"
    ELSE IF SearchIgnoreCase(SuccessPatterns, output) THEN "true"
    ELSE IF SearchIgnoreCase(FailurePatterns, output) THEN "false"
    ELSE IF timedOut THEN "timeout"
    ELSE "unknown"

\* ------------------------------------------- counterexample (lines 118-154)

StemHeader == Tok("=== STEM (initial path) ===")

LoopHeader == Tok("=== LOOP (repeating path) ===")

Min(S) == CHOOSE x \in S : \A y \in S : x <= y

\* re.search(r"(Stem:|We found a lasso-shaped).*?(End of lasso
\* representation\.?|RESULT:)", text, re.DOTALL), case-sensitive: the leftmost
\* start word, then the nearest end word after it (a start with no end word
\* after it leaves none for any later start either), and the full stop that
\* follows "End of lasso representation" when there is one.  The result is
\* <<>> for None and <<group(0)>> for a match.
LassoSearch(text) ==
    LET starts == {i \in 1..Len(text) :
                     /\ Whole(text[i])
                     /\ text[i].t \in {"Stem:", "We found a lasso-shaped"}}
    IN  IF starts = {} THEN <<>>
        ELSE LET s == Min(starts)
                 ends == {j \in (s + 1)..Len(text) :
                            /\ Whole(text[j])
                            /\ text[j].t \in {"End of lasso representation", "RESULT:"}}
             IN  IF ends = {} THEN <<>>
                 ELSE LET e == Min(ends)
                          last == IF /\ text[e].t = "End of lasso representation"
                                     /\ e < Len(text)
                                     /\ text[e + 1] = Tok(".")
                                  THEN e + 1 ELSE e
                      IN  << SubSeq(text, s, last) >>

\* line == "Stem:" or line.startswith("Stem: ")   (and the same for "Loop:")
IsSectionLine(line, word) ==
    \/ line = <<Tok(word)>>
    \/ Len(line) >= 2 /\ line[1] = Tok(word) /\ line[2].t = " " /\ line[2].n >= 1

\* re.match(r"\[L\d+\]", line)
IsTagged(line) ==
    /\ line # <<>>
    /\ Whole(line[1])
    /\ line[1].t \in {"[L1]", "[L12]"}

\* "End of lasso representation" in line
HasEndOfLasso(line) ==
    \E i \in 1..Len(line) :
        Whole(line[i]) /\ line[i].t = "End of lasso representation"

\* The for loop of lines 134-148 from line i on, with trace_lines and
\* current_section as they stand; its value is the final trace_lines.
RECURSIVE TraceLoop(_, _, _, _)
TraceLoop(lines, i, trace_lines, current_section) ==
    IF i > Len(lines) THEN trace_lines
    ELSE LET line == Strip(lines[i]) IN
         IF IsSectionLine(line, "Stem:")
         THEN IF current_section # "Stem"
              THEN TraceLoop(lines, i + 1, Append(trace_lines, <<StemHeader>>), "Stem")
              ELSE TraceLoop(lines, i + 1, trace_lines, current_section)
         ELSE IF IsSectionLine(line, "Loop:")
         THEN IF current_section # "Loop"
              THEN TraceLoop(lines, i + 1, Append(trace_lines, <<LoopHeader>>), "Loop")
              ELSE TraceLoop(lines, i + 1, trace_lines, current_section)
         ELSE IF IsTagged(line)
         THEN TraceLoop(lines, i + 1, Append(trace_lines, line), current_section)
         ELSE IF HasEndOfLasso(line) THEN trace_lines
         ELSE TraceLoop(lines, i + 1, trace_lines, current_section)

TruncateAt == 5000

\* Lines 129-154: the counterexample built from a matched region.
CounterexampleOf(raw_trace) ==
    LET trace_lines == TraceLoop(Split(raw_trace), 1, <<>>, "None")
    IN  IF trace_lines # <<>> THEN Join(trace_lines)
        ELSE Slice(raw_trace, TruncateAt)

\* Lines 119-154: lasso_match and counterexample after the block.  Either is
\* <<>> for None (or never assigned) and <<text>> for a string.
Extract(verdict, output) ==
    IF verdict # "false"
    THEN [searched |-> FALSE, lasso_match |-> <<>>, counterexample |-> <<>>]
    ELSE LET m == LassoSearch(output) IN
         [searched |-> TRUE,
          lasso_match |-> m,
          counterexample |-> IF m # <<>> THEN <<CounterexampleOf(m[1])>> ELSE <<>>]

\* ------------------------------------------------------------ environment

\* What the command line can hold after the program's name: nothing, or one
\* payload.  A payload is malformed JSON, JSON that is no object (a list, a
\* number), or an object with its "files" list ("files" left out reads as the
\* empty list) and its optional "timeout".
Payloads ==
    {[json |-> "malformed", files |-> <<>>, timeout |-> <<>>],
     [json |-> "notObject", files |-> <<>>, timeout |-> <<>>]}
    \cup {[json |-> "object", files |-> f, timeout |-> <<>>] :
            f \in {<<>>, <<"prog.p4">>, <<"prog.p4", "spec.p4ltl">>}}

Argvs == {<<>>} \cup {<<p>> : p \in Payloads}

\* The lines the verifier can write (stdout + stderr), as words.
VerifierLines ==
    {<<Tok("Stem:")>>,
     <<Tok("Loop:"), SP, Tok("x")>>,
     <<Tok("[L1]")>>,
     <<SP, Tok("[L12]"), SP, Tok("violation")>>,
     <<Tok("End of lasso representation"), Tok(".")>>,
     <<Tok("RESULT:"), SP, Tok("CounterExampleResult")>>,
     <<Tok("We found a lasso-shaped"), SP, Tok("counterexample")>>,
     <<Tok("allspecificationsholdresult")>>,
     <<Tok("TypeErrorResult")>>,
     <<Tok("LTLPropertyNotHoldResult")>>,
     <<[t |-> "x", n |-> 4990]>>}

VerifierOutputs ==
    {Join(ls) : ls \in UNION {[1..n -> VerifierLines] : n \in 0..MaxLines}}

\* ------------------------------------------------------------------ state

VARIABLES
    argv,            \* sys.argv[1:]
    fs,              \* the regular files that exist, by path
    pc,              \* where main is
    exit_at,         \* the exit statement taken, "" while running
    exitCode,        \* the process exit status, read once pc = "exited"
    stdout,          \* what was printed to standard output, in order
    stderr,          \* what was printed to standard error, in order
    p4_file,
    p4ltl_file,
    timeout,
    work_dir,        \* "absent", "exists", "removed"
    boogie_file,     \* whether work_dir/p4ltl_boogie.bpl is a file
    translator,      \* the translator process
    translate_result,
    cwd,
    verifier,        \* the verifier process
    verify_output,
    timed_out,       \* <<>> while unassigned, else <<value>>
    verdict,         \* <<>> while unassigned, else <<value>>
    lasso            \* the outcome of the extraction block

vars ==
    <<argv, fs, pc, exit_at, exitCode, stdout, stderr, p4_file, p4ltl_file,
      timeout, work_dir, boogie_file, translator, translate_result, cwd,
      verifier, verify_output, timed_out, verdict, lasso>>

\* json.dumps of a result record; a key that is left out is <<>>.
Json(v, err, details, cex) ==
    [type |-> "json", verdict |-> v, error |-> err, details |-> details,
     counterexample |-> cex]

\* The interpreter's report of an exception that left main.
Traceback ==
    [type |-> "traceback", verdict |-> "", error |-> <<>>, details |-> <<>>,
     counterexample |-> <<>>]

DefaultTimeout == 300

TranslateTimeout == 30

Init ==
    /\ argv \in Argvs
    /\ fs \in SUBSET {"prog.p4", "spec.p4ltl"}
    /\ pc = "argv"
    /\ exit_at = ""
    /\ exitCode = 0
    /\ stdout = <<>>
    /\ stderr = <<>>
    /\ p4_file = ""
    /\ p4ltl_file = ""
    /\ timeout = <<>>
    /\ work_dir = "absent"
    /\ boogie_file = FALSE
    /\ translator = [state |-> "notrun", timeout |-> 0, returncode |-> 0, wrote |-> FALSE]
    /\ translate_result = <<>>
    /\ cwd = "initial"
    /\ verifier = [state |-> "notrun", timeout |-> 0]
    /\ verify_output = <<>>
    /\ timed_out = <<>>
    /\ verdict = <<>>
    /\ lasso = [searched |-> FALSE, lasso_match |-> <<>>, counterexample |-> <<>>]

\* Cleanup for a directory made with mkdtemp: nobody removes it.
CleanupSkipped == UNCHANGED <<work_dir, boogie_file>>

\* Leaving the with block of line 51, by any route: TemporaryDirectory removes
\* the directory and what is in it.  Before line 51 there is nothing to remove.
Cleanup ==
    /\ work_dir' = IF work_dir = "exists" THEN "removed" ELSE work_dir
    /\ boogie_file' = (work_dir # "exists" /\ boogie_file)

\* sys.exit(code): SystemExit unwinds main, through the with block if inside.
SysExit(code, at) ==
    /\ pc' = "exited"
    /\ exitCode' = code
    /\ exit_at' = at
    /\ Cleanup

\* An exception no handler of main catches: it unwinds main the same way, the
\* interpreter prints the traceback and exits with status 1.
Uncaught(at) ==
    /\ stderr' = Append(stderr, Traceback)
    /\ SysExit(1, at)

\* ---------------------------------------------------------------- actions

\* Lines 13-18.
CheckUsage ==
    /\ pc = "argv"
    /\ IF Len(argv) < 1
       THEN /\ stderr' = Append(stderr,
                  Json("error", <<Tok("Usage: entrypoint.py <json_payload>")>>, <<>>, <<>>))
            /\ SysExit(1, "usage")
       ELSE /\ pc' = "json"
            /\ UNCHANGED <<stderr, exit_at, exitCode, work_dir, boogie_file>>
    /\ UNCHANGED <<argv, fs, stdout, p4_file, p4ltl_file, timeout, translator,
                   translate_result, cwd, verifier, verify_output, timed_out,
                   verdict, lasso>>

\* Lines 20-27.
ParseJson ==
    /\ pc = "json"
    /\ IF argv[1].json = "malformed"
       THEN /\ stderr' = Append(stderr,
                  Json("error", <<Tok("Invalid JSON input: ")>>, <<>>, <<>>))
            /\ SysExit(1, "json")
       ELSE /\ pc' = "files"
            /\ UNCHANGED <<stderr, exit_at, exitCode, work_dir, boogie_file>>
    /\ UNCHANGED <<argv, fs, stdout, p4_file, p4ltl_file, timeout, translator,
                   translate_result, cwd, verifier, verify_output, timed_out,
                   verdict, lasso>>

\* Lines 29-39.  input_data.get on a value that is no object raises
\* AttributeError, which nothing catches.
ReadFiles ==
    /\ pc = "files"
    /\ IF argv[1].json # "object"
       THEN /\ Uncaught("uncaught_payload")
            /\ UNCHANGED <<stdout, p4_file, p4ltl_file, timeout>>
       ELSE IF Len(argv[1].files) < 2
       THEN /\ stdout' = Append(stdout,
                  Json("error",
                       <<Tok("P4 and P4LTL files must be provided in JSON payload")>>,
                       <<>>, <<>>))
            /\ SysExit(1, "files")
            /\ UNCHANGED <<stderr, p4_file, p4ltl_file, timeout>>
       ELSE /\ p4_file' = argv[1].files[1]
            /\ p4ltl_file' = argv[1].files[2]
            /\ timeout' = IF argv[1].timeout = <<>> THEN <<DefaultTimeout>>
                          ELSE argv[1].timeout
            /\ pc' = "p4"
            /\ UNCHANGED <<stdout, stderr, exit_at, exitCode, work_dir, boogie_file>>
    /\ UNCHANGED <<argv, fs, translator, translate_result, cwd, verifier,
                   verify_output, timed_out, verdict, lasso>>

\* Lines 42-44.
CheckP4File ==
    /\ pc = "p4"
    /\ IF p4_file \notin fs
       THEN /\ stdout' = Append(stdout,
                  Json("error", <<Tok("P4 file not found: ")>>, <<>>, <<>>))
            /\ SysExit(1, "p4")
       ELSE /\ pc' = "p4ltl"
            /\ UNCHANGED <<stdout, exit_at, exitCode, work_dir, boogie_file>>
    /\ UNCHANGED <<argv, fs, stderr, p4_file, p4ltl_file, timeout, translator,
                   translate_result, cwd, verifier, verify_output, timed_out,
                   verdict, lasso>>

\* Lines 46-48.
CheckP4ltlFile ==
    /\ pc = "p4ltl"
    /\ IF p4ltl_file \notin fs
       THEN /\ stdout' = Append(stdout,
                  Json("error", <<Tok("P4LTL file not found: ")>>, <<>>, <<>>))
            /\ SysExit(1, "p4ltl")
       ELSE /\ pc' = "mkdtemp"
            /\ UNCHANGED <<stdout, exit_at, exitCode, work_dir, boogie_file>>
    /\ UNCHANGED <<argv, fs, stderr, p4_file, p4ltl_file, timeout, translator,
                   translate_result, cwd, verifier, verify_output, timed_out,
                   verdict, lasso>>

\* Lines 51-54: the with statement creates the directory.
EnterWorkDir ==
    /\ pc = "mkdtemp"
    /\ work_dir' = "exists"
    /\ pc' = "translate"
    /\ UNCHANGED <<argv, fs, exit_at, exitCode, stdout, stderr, p4_file,
                   p4ltl_file, timeout, boogie_file, translator,
                   translate_result, cwd, verifier, verify_output, timed_out,
                   verdict, lasso>>

\* Lines 58-63: subprocess.run starts the translator and waits for it.
StartTranslator ==
    /\ pc = "translate"
    /\ translator' = [translator EXCEPT !.state = "running",
                                        !.timeout = TranslateTimeout]
    /\ pc' = "translating"
    /\ UNCHANGED <<argv, fs, exit_at, exitCode, stdout, stderr, p4_file,
                   p4ltl_file, timeout, work_dir, boogie_file,
                   translate_result, cwd, verifier, verify_output, timed_out,
                   verdict, lasso>>

\* Lines 58-64: the translator ends by itself, with any return code and with
\* or without having written the Boogie file.
TranslatorExits ==
    /\ pc = "translating"
    /\ \E rc \in {0, 1}, wrote \in BOOLEAN :
          /\ translator' = [translator EXCEPT !.state = "exited",
                                              !.returncode = rc,
                                              !.wrote = wrote]
          /\ translate_result' = <<[returncode |-> rc]>>
          /\ boogie_file' = wrote
    /\ pc' = "translated"
    /\ UNCHANGED <<argv, fs, exit_at, exitCode, stdout, stderr, p4_file,
                   p4ltl_file, timeout, work_dir, cwd, verifier,
                   verify_output, timed_out, verdict, lasso>>

\* Lines 65-68: subprocess.run kills the translator after 30 s and raises
\* TimeoutExpired.
TranslatorTimesOut ==
    /\ pc = "translating"
    /\ translator' = [translator EXCEPT !.state = "timedout"]
    /\ stdout' = Append(stdout,
           Json("timeout", <<>>,
                <<Tok("Translation P4 + P4LTL to Boogie timeout")>>, <<>>))
    /\ SysExit(0, "translate_timeout")
    /\ UNCHANGED <<argv, fs, stderr, p4_file, p4ltl_file, timeout,
                   translate_result, cwd, verifier, verify_output, timed_out,
                   verdict, lasso>>

\* Lines 69-72: subprocess.run raises anything else, before the translator
\* runs (it cannot be launched) or while its output is read.
TranslatorRaises ==
    /\ pc \in {"translate", "translating"}
    /\ translator' = [translator EXCEPT !.state =
           IF pc = "translate" THEN "notlaunched" ELSE "broken"]
    /\ stdout' = Append(stdout,
           Json("error", <<>>, <<Tok("Translation error: ")>>, <<>>))
    /\ SysExit(1, "translate_exception")
    /\ UNCHANGED <<argv, fs, stderr, p4_file, p4ltl_file, timeout,
                   translate_result, cwd, verifier, verify_output, timed_out,
                   verdict, lasso>>

\* CheckTranslation reading the return code alone.
CheckTranslationReturnCodeOnly ==
    /\ pc = "translated"
    /\ IF translate_result[1].returncode # 0
       THEN /\ stdout' = Append(stdout,
                  Json("error", <<>>, <<Tok("Translation failed: ")>>, <<>>))
            /\ SysExit(1, "translate_failed")
       ELSE /\ pc' = "chdir"
            /\ UNCHANGED <<stdout, exit_at, exitCode, work_dir, boogie_file>>
    /\ UNCHANGED <<argv, fs, stderr, p4_file, p4ltl_file, timeout, translator,
                   translate_result, cwd, verifier, verify_output, timed_out,
                   verdict, lasso>>

\* Lines 74-81.
CheckTranslation ==
    /\ pc = "translated"
    /\ IF translate_result[1].returncode # 0 \/ ~boogie_file
       THEN /\ stdout' = Append(stdout,
                  Json("error", <<>>, <<Tok("Translation failed: ")>>, <<>>))
            /\ SysExit(1, "translate_failed")
       ELSE /\ pc' = "chdir"
            /\ UNCHANGED <<stdout, exit_at, exitCode, work_dir, boogie_file>>
    /\ UNCHANGED <<argv, fs, stderr, p4_file, p4ltl_file, timeout, translator,
                   translate_result, cwd, verifier, verify_output, timed_out,
                   verdict, lasso>>

\* Line 84: os.chdir to the verifier's directory, which the image holds.
ChangeDir ==
    /\ pc = "chdir"
    /\ cwd' = "/p4tv/validator"
    /\ pc' = "verify"
    /\ UNCHANGED <<argv, fs, exit_at, exitCode, stdout, stderr, p4_file,
                   p4ltl_file, timeout, work_dir, boogie_file, translator,
                   translate_result, verifier, verify_output, timed_out,
                   verdict, lasso>>

\* Lines 86-91: subprocess.run starts the verifier and waits for it.
StartVerifier ==
    /\ pc = "verify"
    /\ verifier' = [state |-> "running", timeout |-> timeout[1]]
    /\ pc' = "verifying"
    /\ UNCHANGED <<argv, fs, exit_at, exitCode, stdout, stderr, p4_file,
                   p4ltl_file, timeout, work_dir, boogie_file, translator,
                   translate_result, cwd, verify_output, timed_out, verdict,
                   lasso>>

\* Lines 86-93: the verifier ends by itself, having written any text; its
\* return code is not read.
VerifierExits ==
    /\ pc = "verifying"
    /\ \E out \in VerifierOutputs : verify_output' = out
    /\ verifier' = [verifier EXCEPT !.state = "exited"]
    /\ timed_out' = <<FALSE>>
    /\ pc' = "classify"
    /\ UNCHANGED <<argv, fs, exit_at, exitCode, stdout, stderr, p4_file,
                   p4ltl_file, timeout, work_dir, boogie_file, translator,
                   translate_result, cwd, verdict, lasso>>

\* VerifierTimesOut that records the timeout and goes on to classify what
\* the verifier had written.
VerifierTimesOutDeferred ==
    /\ pc = "verifying"
    /\ verifier' = [verifier EXCEPT !.state = "timedout"]
    /\ \E out \in VerifierOutputs : verify_output' = out
    /\ timed_out' = <<TRUE>>
    /\ pc' = "classify"
    /\ UNCHANGED <<argv, fs, exit_at, exitCode, stdout, stderr, p4_file,
                   p4ltl_file, timeout, work_dir, boogie_file, translator,
                   translate_result, cwd, verdict, lasso>>

\* Lines 94-101: subprocess.run kills the verifier after the timeout and
\* raises TimeoutExpired.
VerifierTimesOut ==
    /\ pc = "verifying"
    /\ verifier' = [verifier EXCEPT !.state = "timedout"]
    /\ stdout' = Append(stdout,
           Json("timeout", <<>>, <<Tok("Verification timeout after ")>>, <<>>))
    /\ SysExit(0, "verify_timeout")
    /\ UNCHANGED <<argv, fs, stderr, p4_file, p4ltl_file, timeout, translator,
                   translate_result, cwd, verify_output, timed_out, verdict,
                   lasso>>

\* Lines 85-101: subprocess.run raises anything but TimeoutExpired (the script
\* cannot be launched, its output cannot be decoded, the timeout is no
\* number); the try has no handler for it.
VerifierRaises ==
    /\ pc \in {"verify", "verifying"}
    /\ verifier' = [verifier EXCEPT !.state =
           IF pc = "verify" THEN "notlaunched" ELSE "broken"]
    /\ Uncaught("uncaught_verifier")
    /\ UNCHANGED <<argv, fs, stdout, p4_file, p4ltl_file, timeout, translator,
                   translate_result, cwd, verify_output, timed_out, verdict,
                   lasso>>

\* Lines 103-165: classify, extract, print the result; the with block ends,
\* main returns and the interpreter exits with status 0.
Report ==
    /\ pc = "classify"
    /\ LET v == Classify(verify_output, timed_out[1])
           x == Extract(v, verify_output)
       IN  /\ verdict' = <<v>>
           /\ lasso' = x
           /\ stdout' = Append(stdout,
                  Json(v, <<>>, verify_output,
                       IF x.counterexample # <<>> /\ x.counterexample[1] # <<>>
                       THEN x.counterexample ELSE <<>>))
    /\ pc' = "exited"
    /\ exitCode' = 0
    /\ exit_at' = "return"
    /\ Cleanup
    /\ UNCHANGED <<argv, fs, stderr, p4_file, p4ltl_file, timeout, translator,
                   translate_result, cwd, verifier, verify_output, timed_out>>

Next ==
    \/ CheckUsage
    \/ ParseJson
    \/ ReadFiles
    \/ CheckP4File
    \/ CheckP4ltlFile
    \/ EnterWorkDir
    \/ StartTranslator
    \/ TranslatorExits
    \/ TranslatorTimesOut
    \/ TranslatorRaises
    \/ CheckTranslation
    \/ ChangeDir
    \/ StartVerifier
    \/ VerifierExits
    \/ VerifierTimesOut
    \/ VerifierRaises
    \/ Report

Spec == Init /\ [][Next]_vars

\* ----------------------------------------------------------------- claims

Verdicts == {"true", "false", "unknown", "timeout", "error"}

\* The JSON records the run has printed, on either stream.
JsonRecords == SelectSeq(stdout \o stderr, LAMBDA r : r.type = "json")

\* The run classified the verifier's text and returned from main.
Reported == pc = "exited" /\ exit_at = "return"

\* The verdict of the record a reporting run printed.
ReportedVerdict == stdout[Len(stdout)].verdict

HasErrorMarker == SearchIgnoreCase(ErrorPatterns, verify_output)

HasSuccessMarker == SearchIgnoreCase(SuccessPatterns, verify_output)

HasFailureMarker ==
    SearchIgnoreCase({"counterexampleresult", "ltlpropertynotholdresult"},
                     verify_output)

HasGenericWord == SearchIgnoreCase({"violation", "counterexample"}, verify_output)

\* The payload passes every check of lines 13-48.
ValidInput ==
    /\ Len(argv) >= 1
    /\ argv[1].json = "object"
    /\ Len(argv[1].files) >= 2
    /\ argv[1].files[1] \in fs
    /\ argv[1].files[2] \in fs

TranslatorInvoked == translator.state # "notrun"

VerifierInvoked == verifier.state # "notrun"

\* C1: a run that reaches classification with an error marker in the
\* verifier's output reports the verdict error, whatever else the output holds.
C1_ErrorPrecedence ==
    (Reported /\ HasErrorMarker) =>
        (verdict = <<"error">> /\ ReportedVerdict = "error")

\* C1 witness: an output with an error, a success and a failure marker was
\* reported as error.
C1_Witness ==
    /\ Reported
    /\ HasErrorMarker /\ HasSuccessMarker /\ HasFailureMarker
    /\ ReportedVerdict = "error"

\* C2 as claimed: every output with a failure marker and no error marker is
\* reported false, also when it holds a success marker.
C2_FailureAlwaysFalse ==
    (Reported /\ HasFailureMarker /\ ~HasErrorMarker) =>
        (ReportedVerdict = "false" /\ lasso.searched)

\* C2 amended: an output with a failure marker, no error marker and no success
\* marker is reported false and the lasso search is run on it; with a success
\* marker as well it is reported true and no search is run.
C2_FailureWithoutSuccess ==
    (Reported /\ HasFailureMarker /\ ~HasErrorMarker) =>
        IF HasSuccessMarker
        THEN ReportedVerdict = "true" /\ ~lasso.searched
        ELSE ReportedVerdict = "false" /\ lasso.searched

\* C2 witness: an output whose only marker is LTLPropertyNotHoldResult was
\* reported false after a lasso search.
C2_Witness ==
    /\ Reported
    /\ SearchIgnoreCase({"ltlpropertynotholdresult"}, verify_output)
    /\ ~SearchIgnoreCase({"counterexampleresult"}, verify_output)
    /\ ~HasErrorMarker /\ ~HasSuccessMarker
    /\ ReportedVerdict = "false" /\ lasso.searched

\* C3: the translator is invoked only on a payload that passes validation, and
\* the verifier only after the translator has ended by itself with return code
\* 0 and the Boogie file written.
C3_StageGating ==
    /\ TranslatorInvoked => ValidInput
    /\ VerifierInvoked =>
          /\ translator.state = "exited"
          /\ translator.returncode = 0
          /\ translator.wrote

\* C3 witness: the verifier ran to its end in a run whose translator
\* succeeded.
C3_Witness == verifier.state = "exited" /\ translator.state = "exited"

\* C4 as claimed: the exit code is 1 exactly on the usage, input and
\* translation error exits (a payload that is no JSON object counted with the
\* input errors) and 0 exactly on the handled results.
C4_ExitCodePolicy ==
    pc = "exited" =>
        /\ exitCode = 1 <=>
              exit_at \in {"usage", "json", "uncaught_payload", "files", "p4",
                           "p4ltl", "translate_exception", "translate_failed"}
        /\ exitCode = 0 <=>
              exit_at \in {"translate_timeout", "verify_timeout", "return"}

\* C5 as claimed: every run ends having printed exactly one JSON record, with
\* one of the five verdicts.
C5_OneRecordPerRun ==
    pc = "exited" =>
        /\ Len(JsonRecords) = 1
        /\ JsonRecords[1].verdict \in Verdicts

\* The stripped lines of a matched region that carry a [L<n>] tag.
TaggedLines(region) ==
    SelectSeq([i \in 1..Len(Split(region)) |-> Strip(Split(region)[i])], IsTagged)

\* Whether a region has a line the loop turns into a header.
HasSectionLine(region) ==
    \E i \in 1..Len(Split(region)) :
        \/ IsSectionLine(Strip(Split(region)[i]), "Stem:")
        \/ IsSectionLine(Strip(Split(region)[i]), "Loop:")

Count(lines, line) == Cardinality({i \in 1..Len(lines) : lines[i] = line})

\* C6 as claimed: the trace extracted from any matched region has at most one
\* STEM header and at most one LOOP header, and its other lines are the tagged
\* lines of the region in their order.
C6_HeadersOnce ==
    (Reported /\ lasso.lasso_match # <<>>
        /\ (TaggedLines(lasso.lasso_match[1]) # <<>>
            \/ HasSectionLine(lasso.lasso_match[1]))) =>
        LET trace == Split(lasso.counterexample[1]) IN
        /\ Count(trace, <<StemHeader>>) <= 1
        /\ Count(trace, <<LoopHeader>>) <= 1
        /\ SelectSeq(trace, LAMBDA l : l \notin {<<StemHeader>>, <<LoopHeader>>})
              = TaggedLines(lasso.lasso_match[1])

\* C7 as claimed: with the verdict false and a matched region that has no
\* tagged line, the counterexample is the region cut to its first 5000
\* characters, also when the region has Stem: or Loop: lines.
C7_LassoFallback ==
    (Reported /\ verdict = <<"false">> /\ lasso.lasso_match # <<>>
        /\ TaggedLines(lasso.lasso_match[1]) = <<>>) =>
        /\ lasso.counterexample = <<Slice(lasso.lasso_match[1], 5000)>>
        /\ CharLen(lasso.counterexample[1]) \in 1..5000

\* C8 as claimed: an output with the word violation or counterexample, no
\* error marker and no success marker is reported false.
C8_GenericWordIsFalse ==
    (Reported /\ HasGenericWord /\ ~HasErrorMarker /\ ~HasSuccessMarker) =>
        ReportedVerdict = "false"

\* C8 amended: such an output is reported false when it holds
\* CounterExampleResult or LTLPropertyNotHoldResult, and unknown otherwise.
C8_GenericWordNeedsMarker ==
    (Reported /\ HasGenericWord /\ ~HasErrorMarker /\ ~HasSuccessMarker) =>
        ReportedVerdict = IF HasFailureMarker THEN "false" ELSE "unknown"

\* C8 witness: an output with a generic word and none of the markers was
\* reported unknown.
C8_Witness ==
    /\ Reported
    /\ HasGenericWord
    /\ ~HasErrorMarker /\ ~HasSuccessMarker /\ ~HasFailureMarker
    /\ ReportedVerdict = "unknown"

\* C9: the working directory is made only after validation has passed and
\* before the translator is invoked, and it is gone, with the Boogie file,
\* whenever the process has ended.
C9_WorkDirLifecycle ==
    /\ work_dir # "absent" =>
          /\ ValidInput
          /\ pc \notin {"argv", "json", "files", "p4", "p4ltl", "mkdtemp"}
    /\ TranslatorInvoked => work_dir # "absent"
    /\ pc = "exited" => (work_dir # "exists" /\ ~boogie_file)

\* C9 witness: the process ended on an exception nothing caught during
\* verification, and the directory it had made is removed.
C9_Witness ==
    /\ pc = "exited"
    /\ exit_at = "uncaught_verifier"
    /\ work_dir = "removed"

\* C10: a finished run printed the verdict timeout exactly when the translator
\* or the verifier timed out; a verifier timeout ends the run with that record
\* alone and no classification; and timed_out is False wherever classification
\* starts, so classification never yields timeout.
C10_TimeoutIff ==
    /\ pc = "exited" =>
          ((\E i \in 1..Len(JsonRecords) : JsonRecords[i].verdict = "timeout")
              <=> (translator.state = "timedout" \/ verifier.state = "timedout"))
    /\ verifier.state = "timedout" =>
          /\ verdict = <<>>
          /\ timed_out = <<>>
          /\ pc = "exited"
          /\ Len(JsonRecords) = 1
          /\ JsonRecords[1].verdict = "timeout"
    /\ pc = "classify" => timed_out = <<FALSE>>
    /\ verdict # <<>> => verdict[1] # "timeout"

\* C10 witness: the verifier timed out and the run ended with exit code 0.
C10_Witness ==
    /\ verifier.state = "timedout"
    /\ pc = "exited"
    /\ exitCode = 0

====
